---- MODULE Spec2Model ----
(***************************************************************************)
(* Model of fermi_helper.py: the command line (cli), the two flag          *)
(* validators (tag, sif), the Dockerfile template and the four commands,   *)
(* each a sequence of external processes started with subprocess.run.      *)
(*                                                                         *)
(* Strings are sequences of characters.  A tag is a sequence over          *)
(* TagChars ("a" stands for any character other than "/" and ":").  A      *)
(* path is a record [abs, parts]: whether it starts with "/", and its      *)
(* components; a component is a sequence over NameChars, where "sif"       *)
(* stands for the letters s,i,f and the other non-dot characters stand for *)
(* any other run of letters.  "." is <<".">> and ".." is <<".", ".">>.     *)
(***************************************************************************)
EXTENDS Integers, Sequences, FiniteSets, TLC

VARIABLES cmd, argv, fs0, fs, pc, args, status, calls, dockerfile

vars == <<cmd, argv, fs0, fs, pc, args, status, calls, dockerfile>>

(* ------------------------------ bounds -------------------------------- *)

MaxTagLen == 3
MaxPullLen == 3
MaxNameLen == 3

(* --------------------------- strings, paths --------------------------- *)

TagChars == {"/", ":", "a"}

StringsUpTo(chars, n) == UNION {[1..k -> chars] : k \in 0..n}

NameChars == {".", "sif", "o"}

Dot == <<".">>
DotDot == <<".", ".">>
W == <<"w">>
D == <<"d">>
M == <<"m">>
X == <<"x">>
Decaf == <<"decaf">>

MkPath(a, p) == [abs |-> a, parts |-> p]

\* pathlib.Path(s): "." components are dropped when the string is parsed,
\* ".." components are kept.
Path(s) == MkPath(s.abs, SelectSeq(s.parts, LAMBDA c : c # Dot))

\* Path.cwd()
Cwd == MkPath(TRUE, <<W>>)

\* the "/" operator of pathlib: an absolute right operand replaces the left
Join(p, q) == IF q.abs THEN q ELSE MkPath(p.abs, p.parts \o q.parts)

RECURSIVE Normalize(_, _)
Normalize(acc, rest) ==
    IF rest = <<>> THEN acc
    ELSE IF Head(rest) = DotDot
         THEN Normalize(IF acc = <<>> THEN acc ELSE SubSeq(acc, 1, Len(acc) - 1),
                        Tail(rest))
         ELSE Normalize(Append(acc, Head(rest)), Tail(rest))

\* Path.resolve(strict=False): made absolute against the working directory,
\* ".." folded away (the modelled file system has no symbolic links).
Resolve(p) == MkPath(TRUE, Normalize(<<>>, Join(Cwd, p).parts))

\* Path.parent
Parent(p) ==
    IF p.parts = <<>> THEN p
    ELSE MkPath(p.abs, SubSeq(p.parts, 1, Len(p.parts) - 1))

\* Path.name
Name(p) == IF p.parts = <<>> THEN <<>> ELSE p.parts[Len(p.parts)]

\* str.rfind('.') on a name, 1-based; 0 when there is no dot
RECURSIVE RFindDot(_, _)
RFindDot(name, i) ==
    IF i = 0 THEN 0
    ELSE IF name[i] = "." THEN i ELSE RFindDot(name, i - 1)

\* Path.suffix: i = name.rfind('.'); name[i:] if 0 < i < len(name) - 1
\* (0-based), else ''.
Suffix(p) ==
    LET name == Name(p)
        i == RFindDot(name, Len(name))
    IN  IF 1 < i /\ i < Len(name) THEN SubSeq(name, i, Len(name)) ELSE <<>>

\* Path.exists(): the operating system walks the components one by one;
\* d is the directory reached so far.
RECURSIVE Walk(_, _, _)
Walk(dirs, d, rest) ==
    /\ d \in dirs
    /\ IF rest = <<>> THEN TRUE
       ELSE Walk(dirs,
                 IF Head(rest) = DotDot
                 THEN (IF d = <<>> THEN d ELSE SubSeq(d, 1, Len(d) - 1))
                 ELSE Append(d, Head(rest)),
                 Tail(rest))

Exists(dirs, p) ==
    LET q == Join(Cwd, p) IN Walk(dirs, <<>>, q.parts)

\* PurePath.relative_to(other): purely lexical; fails (ValueError) unless
\* both have the same anchor and other's components are a prefix of self's.
RelativeToOk(p, other) ==
    /\ p.abs = other.abs
    /\ Len(other.parts) <= Len(p.parts)
    /\ SubSeq(p.parts, 1, Len(other.parts)) = other.parts

RelativeTo(p, other) ==
    MkPath(FALSE, SubSeq(p.parts, Len(other.parts) + 1, Len(p.parts)))

(* ---------------------------- validators ------------------------------ *)

RECURSIVE CountChar(_, _)
CountChar(s, c) ==
    IF s = <<>> THEN 0
    ELSE (IF Head(s) = c THEN 1 ELSE 0) + CountChar(Tail(s), c)

Contains(s, c) == \E i \in 1..Len(s) : s[i] = c

\* cli.tag: the two assertions; TRUE when the value is returned, FALSE when
\* wrap_exception turns the AssertionError into an ArgumentTypeError.
tag_2slashes(s) == CountChar(s, "/") <= 2 /\ Contains(s, ":")

tag(s) == CountChar(s, "/") <= 1 /\ Contains(s, ":")

SifSuffix == <<".", "sif">>

\* cli.sif: the resolved path, and whether both assertions hold on it.
sif_path(s) == Resolve(Path(s))

sif_no_parent_check(dirs, s) == Suffix(sif_path(s)) = SifSuffix

sif(dirs, s) ==
    /\ Suffix(sif_path(s)) = SifSuffix
    /\ Exists(dirs, Parent(sif_path(s)))

(* ------------------------- Dockerfile template ------------------------ *)

\* One record per instruction of the template (blank lines and comments are
\* not modelled): the instruction word, the rest of the line, the base image
\* of a FROM, and the components of the path substituted for decaf_root.
Line(ins, text) == [ins |-> ins, text |-> text, img |-> <<>>, src |-> <<>>]

From(img, stage) == [ins |-> "FROM", text |-> stage, img |-> img, src |-> <<>>]

CopyTree(rel) ==
    [ins |-> "COPY", text |-> "{{ decaf_root }} /opt/decaf", img |-> <<>>,
     src |-> rel.parts]

SpackImage == <<"spack/ubuntu-bionic:latest">>
UbuntuImage == <<"ubuntu:18.04">>
DependenciesStage == <<"dependencies">>

BuilderStage ==
    << From(SpackImage, "builder"),
       Line("RUN", "mkdir /opt/spack-environment && (echo spack: ...) > spack.yaml"),
       Line("RUN", "cd /opt/spack-environment && spack install && spack gc -y"),
       Line("RUN", "cd /opt/spack-environment && spack add pythia8 && spack install && spack gc -y"),
       Line("RUN", "cd /opt/spack-environment && spack env activate --sh -d . >> z10_spack_environment.sh") >>

UbuntuStage ==
    << From(UbuntuImage, "dependencies"),
       Line("RUN", "apt-get update && apt-get install -y build-essential wget gfortran"),
       Line("COPY", "--from=builder /opt/spack-environment /opt/spack-environment"),
       Line("COPY", "--from=builder /opt/software /opt/software"),
       Line("COPY", "--from=builder /opt/view /opt/view"),
       Line("COPY", "--from=builder z10_spack_environment.sh z10_spack_environment.sh"),
       Line("ADD", "apprentice-latest-nodata.tar.gz /opt"),
       Line("RUN", "python3.8 -m virtualenv /opt/venv && pip install networkx cython apprentice"),
       Line("RUN", "mkdir /opt/rivet && ./rivet-bootstrap") >>

\* Jinja2 truth value of pull_dependencies: None and '' are false.
Truthy(pull) == pull.given /\ pull.val # <<>>

\* {% if not pull_dependencies %} ... {% endif %}
DependencyBlock_always(pull) == BuilderStage \o UbuntuStage

DependencyBlock(pull) ==
    IF ~Truthy(pull) THEN BuilderStage \o UbuntuStage ELSE <<>>

\* {% if pull_dependencies %} FROM {{ pull_dependencies }} AS dependencies
PullBlock(pull) ==
    IF Truthy(pull) THEN <<From(pull.val, "dependencies")>> ELSE <<>>

FinalStage == <<From(DependenciesStage, "final")>>

\* {% if not only_dependencies %} ... {% endif %}; the last RUN is kept as
\* its four physical lines ("&&" marks a continuation line).
SourceBlock_inverted(only, rel) ==
    IF only
    THEN << CopyTree(rel), Line("&&", "ENV=docker ./go.sh cmake"),
            Line("&&", "ENV=docker ./go.sh make") >>
    ELSE <<>>

SourceBlock(only, rel) ==
    IF ~only
    THEN << Line("SHELL", "[/bin/bash, --rcfile, /etc/profile, -l, -c]"),
            Line("WORKDIR", "/opt"),
            CopyTree(rel),
            Line("WORKDIR", "/opt/decaf"),
            Line("COPY", "go.sh docker.env.sh /opt/decaf/"),
            Line("RUN", "sed -ie ... PythiaStdlib.h && rm -rf fmt && cp -r include/fmt fmt"),
            Line("RUN", ". /etc/profile"),
            Line("&&", ". /opt/venv/bin/activate"),
            Line("&&", "ENV=docker ./go.sh cmake"),
            Line("&&", "ENV=docker ./go.sh make") >>
    ELSE <<>>

Footer ==
    << Line("ENTRYPOINT", "[/bin/bash, --rcfile, /etc/profile]"),
       Line("CMD", "[-l]") >>

\* dockerfile_template.render(decaf_root=..., only_dependencies=...,
\* pull_dependencies=...)
render(rel, only, pull) ==
    DependencyBlock(pull) \o PullBlock(pull) \o FinalStage
        \o SourceBlock(only, rel) \o Footer

(* ------------------------------ scripts ------------------------------- *)

_make_script(interactive) ==
    <<"setupscript", "hermeticscript">>
        \o (IF interactive THEN <<"intscript">> ELSE <<"runscript">>)

(* --------------------------- command line ----------------------------- *)

Commands ==
    {"build-docker-image", "run-docker-image", "build-singularity-image",
     "run-singularity-image", "none"}

NoFlag == [given |-> FALSE, val |-> <<>>]
NoPathFlag == [given |-> FALSE, val |-> MkPath(FALSE, <<>>)]
NoPath == MkPath(FALSE, <<>>)

\* the defaults given to add_argument
DefaultTag == <<"a", ":", "a">>
DefaultSif == MkPath(FALSE, <<Dot, <<"o", ".", "sif">>>>)
DefaultDecafRoot == Join(Cwd, MkPath(FALSE, <<Decaf>>))
DecafRepo == <<"git@bitbucket.org:tpeterka1/decaf.git">>
DecafRepoBranch == <<"decaf-henson">>

\* the dest names each subparser puts in the namespace (besides main)
ArgKeys(c) ==
    CASE c = "build-docker-image" ->
            {"decaf_root", "decaf_repo", "decaf_repo_branch", "tag",
             "only_dependencies", "pull_dependencies"}
      [] c = "run-docker-image" -> {"tag", "interactive"}
      [] c = "build-singularity-image" -> {"tag", "sif"}
      [] c = "run-singularity-image" -> {"sif", "interactive"}
      [] OTHER -> {}

\* the parameters of the function set_defaults(main=...) names
MainParams(c) ==
    CASE c = "build-docker-image" ->
            {"decaf_root", "decaf_repo", "decaf_repo_branch", "tag",
             "only_dependencies", "pull_dependencies"}
      [] c = "run-docker-image" -> {"tag", "interactive"}
      [] c = "build-singularity-image" -> {"tag", "sif"}
      [] c = "run-singularity-image" -> {"interactive"}
      [] OTHER -> {}

\* parse_args: every flag value given on the command line goes through its
\* type function; one ArgumentTypeError makes parse_args exit with a usage
\* error.
TagFlagOk(f) == f.given => tag(f.val)

SifFlagOk(dirs, f) == f.given => sif(dirs, f.val)

ParseOk(c, a, dirs) ==
    /\ ("tag" \in ArgKeys(c)) => TagFlagOk(a.tag)
    /\ ("pull_dependencies" \in ArgKeys(c)) => TagFlagOk(a.pull)
    /\ ("sif" \in ArgKeys(c)) => SifFlagOk(dirs, a.sif)

\* the namespace parse_args returns
Namespace(a) ==
    [tag |-> IF a.tag.given THEN a.tag.val ELSE DefaultTag,
     pull_dependencies |-> a.pull,
     sif |-> sif_path(IF a.sif.given THEN a.sif.val ELSE DefaultSif),
     decaf_root |-> IF a.root.given THEN Path(a.root.val) ELSE DefaultDecafRoot,
     only_dependencies |-> a.only,
     interactive |-> a.interactive]

NoArgs ==
    [tag |-> <<>>, pull_dependencies |-> NoFlag, sif |-> NoPath,
     decaf_root |-> NoPath, only_dependencies |-> FALSE, interactive |-> FALSE]

(* ------------------------- external processes ------------------------- *)

ExitCodes == {0, 1}

Call(prog, ref, target, path, script, e) ==
    [prog |-> prog, ref |-> ref, target |-> target, path |-> path,
     script |-> script, exit |-> e]

\* run(..., check=True) raises CalledProcessError on a non-zero exit code
Checked(e, next) ==
    IF e # 0
    THEN pc' = "done" /\ status' = "CalledProcessError"
    ELSE pc' = next /\ UNCHANGED status

Finished(e) ==
    /\ pc' = "done"
    /\ status' = IF e # 0 THEN "CalledProcessError" ELSE "ok"

\* the exit status of the interpreter
ExitStatus(st) ==
    CASE st = "ok" -> 0
      [] st = "usage" -> 2
      [] OTHER -> 1

\* if only_dependencies: target = 'dependencies' else: target = 'final'
Target(only) == IF only THEN "dependencies" ELSE "final"

\* if '/' in tag
PushWanted_always(t) == TRUE

PushWanted(t) == Contains(t, "/")

\* 'docker://{}'.format(tag) or 'docker-daemon://{}'.format(tag)
SingularityRef_swapped(t) ==
    IF Contains(t, "/") THEN <<"docker-daemon://">> \o t ELSE <<"docker://">> \o t

SingularityRef(t) ==
    IF Contains(t, "/") THEN <<"docker://">> \o t ELSE <<"docker-daemon://">> \o t

\* the check= argument of the run() that starts git checkout (absent: False)
CheckoutCheck_true == TRUE

CheckoutCheck == FALSE

\* the argument list main_run_singularity_image gives to run()
main_run_singularity_image(interactive, e) ==
    Call("singularity exec", <<>>, "", DefaultSif, _make_script(interactive), e)

(* ------------------------------ inputs -------------------------------- *)

Tags == StringsUpTo(TagChars, MaxTagLen)
PullTags == StringsUpTo(TagChars, MaxPullLen)
Names == StringsUpTo(NameChars, MaxNameLen) \ {<<>>}

TagFlags == {NoFlag} \cup {[given |-> TRUE, val |-> t] : t \in Tags}
PullFlags == {NoFlag} \cup {[given |-> TRUE, val |-> t] : t \in PullTags}

\* directories the --sif value may name before its last component
SifDirs ==
    { MkPath(FALSE, <<>>), MkPath(FALSE, <<D>>), MkPath(FALSE, <<M>>),
      MkPath(FALSE, <<M, DotDot>>), MkPath(FALSE, <<DotDot>>),
      MkPath(TRUE, <<>>), MkPath(TRUE, <<W>>), MkPath(TRUE, <<M>>) }

SifValues ==
    {MkPath(FALSE, <<>>)}
        \cup {MkPath(d.abs, Append(d.parts, n)) : d \in SifDirs, n \in Names}

SifFlags == {NoPathFlag} \cup {[given |-> TRUE, val |-> p] : p \in SifValues}

\* values of --decaf-root
RootValues ==
    { MkPath(TRUE, <<W, Decaf>>), MkPath(FALSE, <<Decaf>>),
      MkPath(FALSE, <<Dot, D, Decaf>>), MkPath(TRUE, <<X>>),
      MkPath(TRUE, <<W, DotDot, X>>), MkPath(TRUE, <<W>>) }

RootFlags == {NoPathFlag} \cup {[given |-> TRUE, val |-> p] : p \in RootValues}

\* the directories that exist whatever the source tree
BaseDirs == {<<>>, <<W>>, <<W, D>>}

Argv(t, p, s, r, o, i) ==
    [tag |-> t, pull |-> p, sif |-> s, root |-> r, only |-> o, interactive |-> i]

InputsOf(c) ==
    CASE c = "build-docker-image" ->
            {Argv(t, p, NoPathFlag, r, o, FALSE) :
                t \in TagFlags, p \in PullFlags, r \in RootFlags, o \in BOOLEAN}
      [] c = "run-docker-image" ->
            {Argv(t, NoFlag, NoPathFlag, NoPathFlag, FALSE, i) :
                t \in TagFlags, i \in BOOLEAN}
      [] c = "build-singularity-image" ->
            {Argv(t, NoFlag, s, NoPathFlag, FALSE, FALSE) :
                t \in TagFlags, s \in SifFlags}
      [] c = "run-singularity-image" ->
            {Argv(NoFlag, NoFlag, s, NoPathFlag, FALSE, i) :
                s \in SifFlags, i \in BOOLEAN}
      [] OTHER -> {Argv(NoFlag, NoFlag, NoPathFlag, NoPathFlag, FALSE, FALSE)}

(* --------------------------- state machine ---------------------------- *)

Init ==
    /\ cmd \in Commands
    /\ argv \in InputsOf(cmd)
    /\ fs0 \in {BaseDirs, BaseDirs \cup {Resolve(Namespace(argv).decaf_root).parts}}
    /\ fs = fs0
    /\ pc = "cli"
    /\ args = NoArgs
    /\ status = "running"
    /\ calls = <<>>
    /\ dockerfile = <<>>

\* cli(): parse_args, then main(**args)
cli ==
    /\ pc = "cli"
    /\ IF ~ParseOk(cmd, argv, fs)
       THEN pc' = "done" /\ status' = "usage" /\ UNCHANGED args
       ELSE IF cmd = "none"
       THEN pc' = "done" /\ status' = "ok" /\ UNCHANGED args
       ELSE IF ArgKeys(cmd) # MainParams(cmd)
       THEN pc' = "done" /\ status' = "TypeError" /\ args' = Namespace(argv)
       ELSE pc' = cmd /\ args' = Namespace(argv) /\ UNCHANGED status
    /\ UNCHANGED <<cmd, argv, fs0, fs, calls, dockerfile>>

\* main_build_docker_image: if not decaf_root.exists(): git clone
git_clone ==
    /\ pc = "build-docker-image"
    /\ ~Exists(fs, args.decaf_root)
    /\ \E e \in ExitCodes :
          /\ calls' = Append(calls, Call("git clone", DecafRepo, "", args.decaf_root, <<>>, e))
          /\ Checked(e, "checkout")
          /\ fs' = IF e = 0 THEN fs \cup {Resolve(args.decaf_root).parts} ELSE fs
    /\ UNCHANGED <<cmd, argv, fs0, args, dockerfile>>

\* ... then git checkout, run without check=True
git_checkout ==
    /\ pc = "checkout"
    /\ \E e \in ExitCodes :
          /\ calls' = Append(calls, Call("git checkout", DecafRepoBranch, "", args.decaf_root, <<>>, e))
          /\ IF CheckoutCheck THEN Checked(e, "render")
             ELSE pc' = "render" /\ UNCHANGED status
    /\ UNCHANGED <<cmd, argv, fs0, fs, args, dockerfile>>

\* dockerfile = dockerfile_template.render(decaf_root=decaf_root.relative_to(Path.cwd()), ...)
render_dockerfile ==
    /\ \/ pc = "render"
       \/ pc = "build-docker-image" /\ Exists(fs, args.decaf_root)
    /\ IF RelativeToOk(args.decaf_root, Cwd)
       THEN /\ dockerfile' = render(RelativeTo(args.decaf_root, Cwd),
                                    args.only_dependencies, args.pull_dependencies)
            /\ pc' = "docker build"
            /\ UNCHANGED status
       ELSE /\ pc' = "done"
            /\ status' = "ValueError"
            /\ UNCHANGED dockerfile
    /\ UNCHANGED <<cmd, argv, fs0, fs, args, calls>>

\* run(['docker', 'build', '-t', tag, '-f', '-', '--target', target, '.'], input=dockerfile, check=True)
docker_build ==
    /\ pc = "docker build"
    /\ \E e \in ExitCodes :
          /\ calls' = Append(calls, Call("docker build", args.tag,
                                         Target(args.only_dependencies), NoPath, <<>>, e))
          /\ IF e = 0 /\ ~PushWanted(args.tag) THEN Finished(e)
             ELSE Checked(e, "docker push")
    /\ UNCHANGED <<cmd, argv, fs0, fs, args, dockerfile>>

\* if '/' in tag: run(['docker', 'push', tag], check=True)
docker_push ==
    /\ pc = "docker push"
    /\ \E e \in ExitCodes :
          /\ calls' = Append(calls, Call("docker push", args.tag, "", NoPath, <<>>, e))
          /\ Finished(e)
    /\ UNCHANGED <<cmd, argv, fs0, fs, args, dockerfile>>

\* main_run_docker_image
docker_run ==
    /\ pc = "run-docker-image"
    /\ \E e \in ExitCodes :
          /\ calls' = Append(calls, Call("docker run", args.tag, "", NoPath,
                                         _make_script(args.interactive), e))
          /\ Finished(e)
    /\ UNCHANGED <<cmd, argv, fs0, fs, args, dockerfile>>

\* main_build_singularity_image
singularity_build ==
    /\ pc = "build-singularity-image"
    /\ \E e \in ExitCodes :
          /\ calls' = Append(calls, Call("singularity build", SingularityRef(args.tag),
                                         "", args.sif, <<>>, e))
          /\ Finished(e)
    /\ UNCHANGED <<cmd, argv, fs0, fs, args, dockerfile>>

Next ==
    \/ cli
    \/ git_clone
    \/ git_checkout
    \/ render_dockerfile
    \/ docker_build
    \/ docker_push
    \/ docker_run
    \/ singularity_build

Spec == Init /\ [][Next]_vars

(* ------------------------------ claims -------------------------------- *)

Done == pc = "done"

CallIndexes(prog) == {i \in 1..Len(calls) : calls[i].prog = prog}

Invoked(prog) == CallIndexes(prog) # {}

SlashCount(s) == Cardinality({i \in 1..Len(s) : s[i] = "/"})

HasColon(s) == \E i \in 1..Len(s) : s[i] = ":"

HasSlash(s) == \E i \in 1..Len(s) : s[i] = "/"

TagAcceptable(s) == SlashCount(s) <= 1 /\ HasColon(s)

GivenTags == {f \in {argv.tag, argv.pull} : f.given}

SomeTagRejected == \E f \in GivenTags : ~TagAcceptable(f.val)

\* C1: whenever an external process of any command exits non-zero, the
\* invocation ends there in failure: the failed process is the last one
\* invoked and the exit status of the tool is not zero.
C1_NonZeroExitAborts ==
    \A i \in 1..Len(calls) :
        calls[i].exit # 0 =>
            /\ i = Len(calls)
            /\ Done
            /\ ExitStatus(status) # 0

\* C2: run-singularity-image with valid flags ends only after having invoked
\* exactly one singularity exec, running the assembled script against the
\* file given by --sif, or against ./decaf-fermi.sif when --sif is absent.
C2_RunSingularityExecsImage ==
    (cmd = "run-singularity-image" /\ Done /\ SifFlagOk(fs0, argv.sif)) =>
        /\ Len(calls) = 1
        /\ calls[1].prog = "singularity exec"
        /\ calls[1].script = _make_script(argv.interactive)
        /\ calls[1].path = IF argv.sif.given THEN Resolve(Path(argv.sif.val))
                           ELSE DefaultSif

SifNameOk(name) ==
    /\ Len(name) >= 3
    /\ name[Len(name) - 1] = "."
    /\ name[Len(name)] = "sif"

SifAcceptable(s) ==
    LET r == Resolve(Path(s))
    IN  /\ r.parts # <<>>
        /\ SifNameOk(r.parts[Len(r.parts)])
        /\ SubSeq(r.parts, 1, Len(r.parts) - 1) \in fs0

\* C4: a --sif value is accepted exactly when the last component of its
\* resolved path has the suffix ".sif" and the directory holding it exists;
\* when it is rejected the invocation ends with a usage error and no
\* external process was invoked.
C4_SifValidation ==
    (pc # "cli" /\ argv.sif.given) =>
        /\ ~SifAcceptable(argv.sif.val)
              => (Done /\ status = "usage" /\ calls = <<>>)
        /\ (SifAcceptable(argv.sif.val) /\ ~SomeTagRejected) => status # "usage"

C4_Witness ==
    /\ Done
    /\ status = "usage"
    /\ argv.sif.given
    /\ ~SomeTagRejected
    /\ SifNameOk(Name(Resolve(Path(argv.sif.val))))
    /\ Parent(Resolve(Path(argv.sif.val))).parts \notin fs0

\* C5: in the build command a docker push of the tag is invoked exactly when
\* the tag contains "/" and docker build exited zero, directly after that
\* build; the build targets "dependencies" with --only-dependencies and
\* "final" without.
C5_PushIffSlashAndBuildOk ==
    cmd = "build-docker-image" =>
        /\ \A i \in CallIndexes("docker push") :
              /\ i > 1
              /\ calls[i - 1].prog = "docker build"
              /\ calls[i - 1].exit = 0
              /\ HasSlash(args.tag)
              /\ calls[i].ref = args.tag
        /\ Cardinality(CallIndexes("docker push")) <= 1
        /\ (Done /\ HasSlash(args.tag)
                 /\ \E i \in CallIndexes("docker build") : calls[i].exit = 0)
              => Invoked("docker push")
        /\ \A i \in CallIndexes("docker build") :
              /\ calls[i].target = IF argv.only THEN "dependencies" ELSE "final"
              /\ calls[i].ref = args.tag

C5_Witness ==
    /\ Done
    /\ cmd = "build-docker-image"
    /\ argv.only
    /\ Invoked("docker push")
    /\ status = "ok"

Rendered == dockerfile # <<>>

LineIndexes(l) == {i \in 1..Len(dockerfile) : dockerfile[i] = l}

StageIndexes(stage) ==
    {i \in 1..Len(dockerfile) :
        dockerfile[i].ins = "FROM" /\ dockerfile[i].text = stage}

InstallBlock == BuilderStage \o UbuntuStage

\* C6: a Dockerfile rendered with a pull-dependencies tag holds no line of
\* the dependency-install block and holds FROM <tag> AS dependencies; one
\* rendered without holds the whole block, in order, and no stage based on
\* another image than the three the block and the final stage name.  Either
\* way exactly one stage is named "dependencies".
C6_DependencyStage ==
    Rendered =>
        /\ argv.pull.given =>
              /\ \A k \in 1..Len(InstallBlock) : LineIndexes(InstallBlock[k]) = {}
              /\ LineIndexes(From(argv.pull.val, "dependencies")) # {}
        /\ ~argv.pull.given =>
              /\ SubSeq(dockerfile, 1, Len(InstallBlock)) = InstallBlock
              /\ \A i \in 1..Len(dockerfile) :
                    dockerfile[i].ins = "FROM" =>
                        dockerfile[i].img \in {SpackImage, UbuntuImage, DependenciesStage}
        /\ Cardinality(StageIndexes("dependencies")) = 1

C6_Witness ==
    /\ Rendered
    /\ argv.pull.given
    /\ HasSlash(argv.pull.val)
    /\ Invoked("docker build")

GoShLines ==
    {Line("&&", "ENV=docker ./go.sh cmake"), Line("&&", "ENV=docker ./go.sh make")}

IsTreeCopy(l) == l.ins = "COPY" /\ l.text = "{{ decaf_root }} /opt/decaf"

\* C7: a Dockerfile rendered with only_dependencies holds no copy of the
\* source tree and neither go.sh command; one rendered without holds, after
\* the FROM of the final stage, the copy of the source tree (the path
\* relative to the working directory) and then both go.sh commands.  Both
\* hold with and without a pull-dependencies tag.
C7_SourceStage ==
    Rendered =>
        /\ argv.only =>
              \A i \in 1..Len(dockerfile) :
                  ~IsTreeCopy(dockerfile[i]) /\ dockerfile[i] \notin GoShLines
        /\ ~argv.only =>
              \E f \in StageIndexes("final") :
              \E c, m, k \in 1..Len(dockerfile) :
                  /\ f < c /\ c < m /\ m < k
                  /\ IsTreeCopy(dockerfile[c])
                  /\ dockerfile[c].src
                        = SubSeq(args.decaf_root.parts, 2, Len(args.decaf_root.parts))
                  /\ dockerfile[m] = Line("&&", "ENV=docker ./go.sh cmake")
                  /\ dockerfile[k] = Line("&&", "ENV=docker ./go.sh make")

C7_Witness ==
    /\ Rendered
    /\ argv.only
    /\ argv.pull.given
    /\ Invoked("docker build")

\* C8: the convert command invokes exactly one singularity build, from
\* docker://<tag> when the tag contains "/" and docker-daemon://<tag>
\* otherwise, into the validated (resolved) --sif path, and invokes no
\* docker process.
C8_ConvertInvokesSingularityBuild ==
    cmd = "build-singularity-image" =>
        /\ \A i \in 1..Len(calls) :
              /\ i = 1
              /\ calls[i].prog = "singularity build"
              /\ calls[i].ref
                    = (IF HasSlash(args.tag) THEN <<"docker://">>
                       ELSE <<"docker-daemon://">>) \o args.tag
              /\ calls[i].path
                    = Resolve(Path(IF argv.sif.given THEN argv.sif.val ELSE DefaultSif))
        /\ (Done /\ status # "usage") => Len(calls) = 1

C8_Witness ==
    /\ Done
    /\ cmd = "build-singularity-image"
    /\ argv.tag.given /\ HasSlash(args.tag)
    /\ argv.sif.given
    /\ Len(calls) = 1

BuildEntered ==
    cmd = "build-docker-image" /\ pc \notin {"cli", "build-docker-image"}
        /\ status \notin {"usage", "TypeError"}

TreeMissingAtStart == ~Exists(fs0, args.decaf_root)

Failed(prog) == \E i \in CallIndexes(prog) : calls[i].exit # 0

C9_CloneCheckoutOrder ==
    BuildEntered =>
        /\ Invoked("git clone") <=> TreeMissingAtStart
        /\ Invoked("git clone") => calls[1].prog = "git clone"
        /\ \A i \in CallIndexes("git clone") : i = 1
        /\ Invoked("git checkout")
              <=> (Invoked("git clone") /\ ~Failed("git clone") /\ Len(calls) >= 2)
        /\ \A i \in CallIndexes("git checkout") : i = 2
        /\ \A i \in CallIndexes("docker build") :
              i = IF TreeMissingAtStart THEN 3 ELSE 1
        /\ Failed("git clone") => (Done /\ Len(calls) = 1 /\ ExitStatus(status) # 0)

\* C9 as stated: clone then checkout are invoked exactly when the source
\* tree is missing, in that order and before docker build; a failed clone
\* aborts; a failed checkout is ignored and docker build is still invoked.
C9_Original ==
    /\ C9_CloneCheckoutOrder
    /\ (BuildEntered /\ Done /\ Failed("git checkout")) => Invoked("docker build")

LexicallyUnderCwd(p) == p.abs /\ p.parts # <<>> /\ p.parts[1] = W

\* C9 as amended: the same, except that after a checkout, failed or not, the
\* command goes on to express the source path relative to the working
\* directory, and docker build is invoked next exactly when that succeeds;
\* otherwise the command ends with a path error and no docker build.
C9_Amended ==
    /\ C9_CloneCheckoutOrder
    /\ (BuildEntered /\ Invoked("git checkout") /\ pc \notin {"render"}) =>
          IF LexicallyUnderCwd(args.decaf_root)
          THEN pc = "docker build" \/ (Len(calls) >= 3 /\ calls[3].prog = "docker build")
          ELSE Done /\ status = "ValueError" /\ Len(calls) = 2

C9_Witness ==
    /\ Done
    /\ Failed("git checkout")
    /\ Invoked("docker build")
    /\ status = "ok"

IsDescendant(p) ==
    LET r == Resolve(p)
    IN  Len(r.parts) >= 1 /\ r.parts[1] = W

\* C10: the build command fails with a path error exactly when the source
\* path is not a descendant of the working directory (a failed clone apart,
\* which ends the command earlier); a path error leaves docker build and
\* docker push uninvoked and comes after the clone and checkout of a
\* missing source tree.
C10_PathErrorIffNotDescendant ==
    (BuildEntered /\ Done /\ ~Failed("git clone")) =>
        /\ status = "ValueError" <=> ~IsDescendant(args.decaf_root)
        /\ status = "ValueError" =>
              /\ ~Invoked("docker build")
              /\ ~Invoked("docker push")
              /\ TreeMissingAtStart
                    => (Invoked("git clone") /\ Invoked("git checkout"))

====
